---- MODULE Spec2Model ----
(***************************************************************************)
(* GUARDIAN risk-decision engine: SwapGuardAgent (swap evaluation, token   *)
(* analysis, analysis cache), EvacuatorAgent (evacuation planning and      *)
(* execution) and SafetyGuard (checks before an action is taken).          *)
(*                                                                         *)
(* Units.  Risk scores are Python floats; here they are exact integers in  *)
(* units of 1/10000 of a risk point (Pts(80) is the score 80.0).  SOL      *)
(* amounts of swap requests are in tenths of a SOL, SOL balances of the    *)
(* evacuator in hundredths of a SOL.  Time of the swap guard is in         *)
(* minutes, time of the evacuator in seconds.                              *)
(***************************************************************************)
EXTENDS Integers, Sequences, FiniteSets, TLC

VARIABLES
    whitelist,        \* SwapGuardAgent.whitelist
    blacklist,        \* SwapGuardAgent.blacklist
    analysis_cache,   \* SwapGuardAgent.analysis_cache: mint -> (TokenAnalysis, timestamp)
    stats,            \* SwapGuardAgent.stats
    now,              \* datetime.now(timezone.utc), minutes
    task,             \* the evaluate_swap coroutines: position, request, returned decision
    next_oid,         \* identity of the next TokenAnalysis object created
    evac,             \* the execute_evacuation coroutines: position, result under construction
    active_evacuations,   \* EvacuatorAgent.active_evacuations: id -> owner of the result object
    evacuation_history,   \* EvacuatorAgent.evacuation_history
    evac_stats,       \* EvacuatorAgent.stats
    evac_clock,       \* datetime.now(), seconds
    scoring,          \* one _analyze_token / _make_decision computation on given facts
    safe_wallets,     \* EvacuatorAgent.safe_wallets: user wallet -> list of safe wallets
    planner,          \* the request a plan or execute route is handling
    _emergency_stop,  \* SafetyGuard._emergency_stop
    emergency_stop_enabled,   \* SafetyGuard.config.emergency_stop_enabled
    recent_actions,   \* SafetyGuard.recent_actions
    blocked_addresses,        \* SafetyGuard.blocked_addresses: address -> time of its last block
    pending_human_approval,   \* SafetyGuard.pending_human_approval
    safety_clock,     \* datetime.now(), half hours
    last_check,       \* the dict the call of check_action_allowed just made returned, with the call
    block_calls       \* history: the record_action("BLOCK", ...) calls made at each time

swap_vars == <<whitelist, blacklist, analysis_cache, stats, now, task, next_oid>>

evac_vars == <<evac, active_evacuations, evacuation_history, evac_stats, evac_clock>>

score_vars == <<scoring>>

plan_vars == <<safe_wallets, planner>>

safety_vars == <<_emergency_stop, emergency_stop_enabled, recent_actions,
                 blocked_addresses, pending_human_approval, safety_clock,
                 last_check, block_calls>>

\* What the operations of each component leave alone
not_swap_vars == <<evac_vars, score_vars, plan_vars, safety_vars>>
not_evac_vars == <<swap_vars, score_vars, plan_vars, safety_vars>>
not_score_vars == <<swap_vars, evac_vars, plan_vars, safety_vars>>
not_plan_vars == <<swap_vars, evac_vars, score_vars, safety_vars>>
not_safety_vars == <<swap_vars, evac_vars, score_vars, plan_vars>>

vars == <<swap_vars, evac_vars, score_vars, plan_vars, safety_vars>>

(***************************************************************************)
(* Bounds of the model                                                     *)
(***************************************************************************)
MaxEval == 2
MaxTime == 5
MaxApprovals == 2
MaxTokens == 2
MaxEvacTime == 1
MaxSafetyTime == 3
MaxPending == 1

Tasks == {"t1", "t2"}
Mints == {"USDC", "SCAM"}
\* the mints the list-management calls are made for
ListedMints == {"SCAM"}
Users == {"u1", "u2"}
\* what each user asks for: u1 0.3 SOL at 50 bps, u2 200 SOL (above every
\* position limit) at 300 bps
AmountOf(u) == IF u = "u1" THEN 3 ELSE 2000
SlippageOf(u) == IF u = "u1" THEN 50 ELSE 300
Impacts == {0, 50}

(***************************************************************************)
(* Enumerations and policy tables of SwapGuardAgent                        *)
(***************************************************************************)
SwapRisk == {"safe", "low", "medium", "high", "critical", "blocked"}
SwapAction == {"approve", "warn", "limit", "reject", "require_confirm"}

Pts(x) == x * 10000

thresholds ==
    [safe_max_risk |-> 20, low_max_risk |-> 40, medium_max_risk |-> 60,
     high_max_risk |-> 80, critical_threshold |-> 80,
     min_liquidity_usd |-> 1000, max_price_impact_pct |-> 10]

\* position_limits.get(risk_level, 0.0), tenths of a SOL
position_limits(risk_level) ==
    CASE risk_level = "safe" -> 1000
      [] risk_level = "low" -> 100
      [] risk_level = "medium" -> 20
      [] risk_level = "high" -> 5
      [] OTHER -> 0

\* slippage_recommendations.get(risk_level, 100): the table has no BLOCKED key
slippage_recommendations(risk_level) ==
    CASE risk_level = "safe" -> 50
      [] risk_level = "low" -> 100
      [] risk_level = "medium" -> 200
      [] risk_level = "high" -> 500
      [] risk_level = "critical" -> 1000
      [] OTHER -> 100

InitialWhitelist == {"SOL", "USDC", "USDT", "mSOL", "stSOL", "BONK", "JUP"}

cache_ttl == 5

Max(a, b) == IF a >= b THEN a ELSE b
Min(a, b) == IF a <= b THEN a ELSE b

\* A warning string: its fixed text (kind) and the value formatted into it.
W(kind, arg) == [kind |-> kind, arg |-> arg]

(***************************************************************************)
(* Jupiter liquidity probe (agents/integrations/jupiter.py)                *)
(***************************************************************************)
\* A price impact that is None (no quote, or a quote without priceImpactPct)
NoImpact == 0 - 1

\* get_quote returns None on any HTTP or network error
NoQuote == [some |-> FALSE, impact |-> NoImpact, outAmount |-> "absent"]

BuyQuotes ==
    {NoQuote} \cup
    [some : {TRUE}, impact : Impacts \cup {NoImpact},
     outAmount : {"ok", "absent", "malformed"}]

SellQuotes == {NoQuote, [some |-> TRUE, impact |-> 0, outAmount |-> "ok"]}

\* What a liquidity probe can meet: no client, no buy quote, or a buy quote
\* and, when check_liquidity asks for one, a sell quote or none
Probes ==
    {[client_ok |-> FALSE, buy |-> NoQuote, sell |-> NoQuote]} \cup
    {p \in [client_ok : {TRUE}, buy : BuyQuotes, sell : SellQuotes] :
        p.sell = NoQuote \/ (p.buy.some /\ p.buy.outAmount = "ok")}

\* Optional[Dict] of _check_jupiter_liquidity when it is None
NoLiquidityData ==
    [some |-> FALSE, can_buy |-> FALSE, can_sell |-> FALSE,
     estimated_liquidity_usd |-> 0, price_impact_buy |-> NoImpact,
     is_honeypot |-> FALSE]

\* JupiterClient.check_liquidity: impacts are in percent (float(impact) * 100)
check_liquidity(buy, sell) ==
    LET can_buy == buy.some
        price_impact_buy ==
            IF buy.some /\ buy.impact # NoImpact THEN buy.impact ELSE NoImpact
        asks_sell == buy.some /\ buy.outAmount # "absent"
        raised == asks_sell /\ buy.outAmount = "malformed"
        can_sell == asks_sell /\ sell.some
        liq == IF price_impact_buy = NoImpact THEN 0
               ELSE IF price_impact_buy < 1 THEN 100000
               ELSE IF price_impact_buy < 5 THEN 10000
               ELSE IF price_impact_buy < 20 THEN 1000
               ELSE 100
    IN  [raised |-> raised,
         data |-> [some |-> TRUE, can_buy |-> can_buy, can_sell |-> can_sell,
                   estimated_liquidity_usd |-> liq,
                   price_impact_buy |-> price_impact_buy,
                   is_honeypot |-> can_buy /\ ~can_sell]]

\* SwapGuardAgent._check_jupiter_liquidity: any exception (client construction,
\* check_liquidity itself) is swallowed and None returned
_check_jupiter_liquidity(client_ok, buy, sell) ==
    IF ~client_ok \/ check_liquidity(buy, sell).raised
    THEN NoLiquidityData
    ELSE check_liquidity(buy, sell).data

\* The probe failed: the call raised (no client, or check_liquidity raised on
\* a malformed outAmount), or a quote was unavailable or came without its
\* priceImpactPct
SourceFailed(client_ok, buy, sell) ==
    \/ ~client_ok
    \/ check_liquidity(buy, sell).raised
    \/ ~buy.some
    \/ buy.impact = NoImpact

\* SwapGuardAgent._get_token_info: the hard-coded simulated record
_get_token_info ==
    [some |-> TRUE, mint_authority_enabled |-> FALSE,
     freeze_authority_enabled |-> FALSE, verified |-> FALSE, age_hours |-> 48,
     holder_count |-> 500, top_holder_pct |-> 15, has_social |-> TRUE]

(***************************************************************************)
(* Risk scoring (SwapGuardAgent._analyze_token and helpers)                *)
(***************************************************************************)
\* TokenAnalysis(...) as constructed at the top of _analyze_token
DefaultAnalysis(mint) ==
    [mint |-> mint, overall_risk |-> Pts(50), honeypot_risk |-> 0,
     rugpull_risk |-> 0, liquidity_risk |-> Pts(50),
     concentration_risk |-> Pts(50), is_honeypot |-> FALSE,
     is_blacklisted |-> FALSE, has_mint_authority |-> FALSE,
     has_freeze_authority |-> FALSE, is_verified |-> FALSE,
     liquidity_usd |-> 0, price_impact_1sol |-> 100, can_sell |-> TRUE,
     top_holder_pct |-> 0, holder_count |-> 0, has_social |-> FALSE,
     age_hours |-> 0, warnings |-> <<>>, risk_level |-> "medium",
     recommended_action |-> "warn", max_safe_amount_sol |-> 0]

\* The overall risk taken as the largest component instead of the weighted sum
_calculate_overall_risk_largest(analysis) ==
    IF analysis.is_honeypot THEN Pts(100)
    ELSE Max(Max(analysis.honeypot_risk, analysis.rugpull_risk),
             Max(analysis.liquidity_risk, analysis.concentration_risk))

_calculate_overall_risk(analysis) ==
    IF analysis.is_honeypot THEN Pts(100)
    ELSE LET score == (30 * analysis.honeypot_risk + 25 * analysis.rugpull_risk
                       + 25 * analysis.liquidity_risk
                       + 20 * analysis.concentration_risk) \div 100
             bonus == IF analysis.is_verified THEN (score * 7) \div 10 ELSE score
         IN  Min(Pts(100), Max(0, bonus))

\* _determine_risk_level with inclusive upper limits
_determine_risk_level_inclusive(analysis) ==
    IF analysis.is_honeypot THEN "critical"
    ELSE IF analysis.is_blacklisted THEN "blocked"
    ELSE IF analysis.overall_risk <= Pts(thresholds.safe_max_risk) THEN "safe"
    ELSE IF analysis.overall_risk <= Pts(thresholds.low_max_risk) THEN "low"
    ELSE IF analysis.overall_risk <= Pts(thresholds.medium_max_risk) THEN "medium"
    ELSE IF analysis.overall_risk <= Pts(thresholds.high_max_risk) THEN "high"
    ELSE "critical"

_determine_risk_level(analysis) ==
    IF analysis.is_honeypot THEN "critical"
    ELSE IF analysis.is_blacklisted THEN "blocked"
    ELSE IF analysis.overall_risk < Pts(thresholds.safe_max_risk) THEN "safe"
    ELSE IF analysis.overall_risk < Pts(thresholds.low_max_risk) THEN "low"
    ELSE IF analysis.overall_risk < Pts(thresholds.medium_max_risk) THEN "medium"
    ELSE IF analysis.overall_risk < Pts(thresholds.high_max_risk) THEN "high"
    ELSE "critical"

_determine_action(analysis) ==
    CASE analysis.risk_level = "safe" -> "approve"
      [] analysis.risk_level = "low" -> "approve"
      [] analysis.risk_level = "medium" -> "warn"
      [] analysis.risk_level = "high" -> "require_confirm"
      [] analysis.risk_level \in {"critical", "blocked"} -> "reject"
      [] OTHER -> "warn"

\* The liquidity block of _analyze_token, statement by statement
LiquidityFacts(a, ld) ==
    [a EXCEPT !.liquidity_usd = ld.estimated_liquidity_usd,
              !.price_impact_1sol = ld.price_impact_buy,
              !.can_sell = ld.can_sell]

HoneypotCheck(a, ld) ==
    IF ld.can_buy /\ ~ld.can_sell
    THEN [a EXCEPT !.is_honeypot = TRUE, !.honeypot_risk = Pts(100),
                   !.warnings = Append(@, W("honeypot", 0))]
    ELSE a

\* The liquidity buckets with the middle one scored below the top one
LiquidityCheckMiddleLow(a) ==
    IF a.liquidity_usd < thresholds.min_liquidity_usd
    THEN [a EXCEPT !.liquidity_risk = Pts(80)]
    ELSE IF a.liquidity_usd < 10000
    THEN [a EXCEPT !.liquidity_risk = Pts(20)]
    ELSE [a EXCEPT !.liquidity_risk = Max(0, Pts(30) - a.liquidity_usd)]

\* "Low liquidity warning"
LiquidityCheck(a) ==
    IF a.liquidity_usd < thresholds.min_liquidity_usd
    THEN [a EXCEPT !.liquidity_risk = Pts(80),
                   !.warnings = Append(@, W("very_low_liquidity", a.liquidity_usd))]
    ELSE IF a.liquidity_usd < 10000
    THEN [a EXCEPT !.liquidity_risk = Pts(50),
                   !.warnings = Append(@, W("low_liquidity", a.liquidity_usd))]
    ELSE [a EXCEPT !.liquidity_risk = Max(0, Pts(30) - a.liquidity_usd)]

\* raised: the comparison of a None price impact with the threshold raises
\* TypeError
PriceImpactCheck(a) ==
    IF a.price_impact_1sol = NoImpact
    THEN [a |-> a, raised |-> TRUE]
    ELSE IF a.price_impact_1sol > thresholds.max_price_impact_pct
    THEN [a |-> [a EXCEPT !.warnings =
                    Append(@, W("high_price_impact", a.price_impact_1sol))],
          raised |-> FALSE]
    ELSE [a |-> a, raised |-> FALSE]

AnalyzeLiquidity(a, ld) ==
    IF ld.some
    THEN PriceImpactCheck(LiquidityCheck(HoneypotCheck(LiquidityFacts(a, ld), ld)))
    ELSE [a |-> [a EXCEPT !.liquidity_risk = Pts(90),
                          !.warnings = Append(@, W("liquidity_unverified", 0))],
          raised |-> FALSE]

\* The token-metadata block of _analyze_token, statement by statement
TokenFacts(a, ti) ==
    [a EXCEPT !.has_mint_authority = ti.mint_authority_enabled,
              !.has_freeze_authority = ti.freeze_authority_enabled,
              !.is_verified = ti.verified,
              !.age_hours = ti.age_hours,
              !.holder_count = ti.holder_count,
              !.top_holder_pct = ti.top_holder_pct,
              !.has_social = ti.has_social]

MintAuthorityCheck(a) ==
    IF a.has_mint_authority
    THEN [a EXCEPT !.rugpull_risk = @ + Pts(30),
                   !.warnings = Append(@, W("mint_authority", 0))]
    ELSE a

FreezeAuthorityCheck(a) ==
    IF a.has_freeze_authority
    THEN [a EXCEPT !.rugpull_risk = @ + Pts(20),
                   !.warnings = Append(@, W("freeze_authority", 0))]
    ELSE a

AgeCheck(a) ==
    IF a.age_hours < 24
    THEN [a EXCEPT !.rugpull_risk = @ + Pts(20),
                   !.warnings = Append(@, W("very_new_token", a.age_hours))]
    ELSE IF a.age_hours < 72
    THEN [a EXCEPT !.rugpull_risk = @ + Pts(10),
                   !.warnings = Append(@, W("new_token", a.age_hours))]
    ELSE a

ConcentrationCheck(a) ==
    IF a.top_holder_pct > 50
    THEN [a EXCEPT !.concentration_risk = Pts(90),
                   !.warnings = Append(@, W("high_concentration", a.top_holder_pct))]
    ELSE IF a.top_holder_pct > 20
    THEN [a EXCEPT !.concentration_risk = Pts(60),
                   !.warnings = Append(@, W("concentrated", a.top_holder_pct))]
    ELSE a

HolderCountCheck(a) ==
    IF a.holder_count < 100
    THEN [a EXCEPT !.warnings = Append(@, W("few_holders", a.holder_count))]
    ELSE a

SocialCheck(a) ==
    IF ~a.has_social
    THEN [a EXCEPT !.warnings = Append(@, W("no_social", 0))]
    ELSE a

AnalyzeTokenInfo(a, ti) ==
    IF ~ti.some THEN a
    ELSE SocialCheck(HolderCountCheck(ConcentrationCheck(AgeCheck(
             FreezeAuthorityCheck(MintAuthorityCheck(TokenFacts(a, ti)))))))

\* The except branch of _analyze_token: the fields set before the exception
\* stay as they are
AnalysisFailed(a) ==
    [a EXCEPT !.overall_risk = Pts(75), !.risk_level = "high",
              !.recommended_action = "warn",
              !.warnings = <<W("analysis_incomplete", 0)>>]

\* The scoring statements that end the try block of _analyze_token
WithOverallRisk(a) == [a EXCEPT !.overall_risk = _calculate_overall_risk(a)]

WithRiskLevel(a) == [a EXCEPT !.risk_level = _determine_risk_level(a)]

WithAction(a) == [a EXCEPT !.recommended_action = _determine_action(a)]

WithSafeAmount(a) == [a EXCEPT !.max_safe_amount_sol = position_limits(a.risk_level)]

AnalysisOutcome(l, token_info) ==
    IF l.raised THEN AnalysisFailed(l.a)
    ELSE WithSafeAmount(WithAction(WithRiskLevel(WithOverallRisk(
             AnalyzeTokenInfo(l.a, token_info)))))

\* SwapGuardAgent._analyze_token, given what the two sources return
_analyze_token(mint, liquidity_data, token_info) ==
    AnalysisOutcome(AnalyzeLiquidity(DefaultAnalysis(mint), liquidity_data), token_info)

(***************************************************************************)
(* Decisions (SwapGuardAgent._make_decision, _approve_swap, _reject_swap)  *)
(***************************************************************************)
\* SwapRequest as built by the module-level evaluate_swap: the id is a digest
\* of wallet, output mint and amount
SwapRequest(user_wallet, output_mint, amount, slippage_bps) ==
    [id |-> <<user_wallet, output_mint, amount>>, user_wallet |-> user_wallet,
     input_mint |-> "SOL", output_mint |-> output_mint,
     input_amount |-> amount, slippage_bps |-> slippage_bps]

Requests ==
    {SwapRequest(u, m, AmountOf(u), SlippageOf(u)) : u \in Users, m \in Mints}

NoParams ==
    [some |-> FALSE, input_mint |-> "", output_mint |-> "", amount |-> 0,
     slippage_bps |-> 0, max_accounts |-> 0]

_calculate_confidence(analysis) ==
    LET c1 == 50 + (IF analysis.liquidity_usd > 0 THEN 15 ELSE 0)
                 + (IF analysis.holder_count > 0 THEN 10 ELSE 0)
                 + (IF analysis.age_hours > 0 THEN 10 ELSE 0)
                 + (IF analysis.is_verified THEN 15 ELSE 0)
        c2 == IF analysis.is_honeypot THEN 95
              ELSE IF analysis.overall_risk < Pts(10) \/ analysis.overall_risk > Pts(90)
              THEN c1 + 10
              ELSE c1
    IN  Min(99, c2)

\* The limit test of _make_decision without its max_safe > 0 part
ExceedsLimitAnyTier(amount, max_safe) == amount > max_safe

\* if request.input_amount > max_safe and max_safe > 0
ExceedsLimit(amount, max_safe) == amount > max_safe /\ max_safe > 0

\* _make_decision appends the limit warning to analysis.warnings, the list of
\* the TokenAnalysis object itself, and hands that same list to the decision:
\* the result carries the decision as returned and the analysis as left behind.
\* token_analysis is the identity (oid) of the TokenAnalysis object.
_make_decision(request, analysis, oid) ==
    LET risk_level == analysis.risk_level
        max_safe == position_limits(risk_level)
        over == ExceedsLimit(request.input_amount, max_safe)
        action == IF over THEN "limit" ELSE analysis.recommended_action
        analysis2 ==
            IF over
            THEN [analysis EXCEPT !.warnings =
                      Append(@, W("exceeds_safe_limit", request.input_amount))]
            ELSE analysis
        recommended_slippage == slippage_recommendations(risk_level)
        safe_amount == IF max_safe > 0 THEN Min(request.input_amount, max_safe)
                       ELSE request.input_amount
        safe_params ==
            IF action \in {"approve", "warn", "limit"}
            THEN [some |-> TRUE, input_mint |-> request.input_mint,
                  output_mint |-> request.output_mint, amount |-> safe_amount,
                  slippage_bps |-> Max(request.slippage_bps, recommended_slippage),
                  max_accounts |-> 20]
            ELSE NoParams
    IN  [decision |->
             [request_id |-> request.id, action |-> action,
              risk_level |-> risk_level, token_analysis |-> oid,
              recommended_slippage_bps |-> slippage_recommendations(risk_level),
              max_safe_amount |-> max_safe, warnings |-> analysis2.warnings,
              safe_swap_params |-> safe_params,
              confidence |-> _calculate_confidence(analysis2)],
         analysis |-> analysis2]

\* token_analysis = 0 is None
_approve_swap(request) ==
    [request_id |-> request.id, action |-> "approve", risk_level |-> "safe",
     token_analysis |-> 0, recommended_slippage_bps |-> 50,
     max_safe_amount |-> 1000, warnings |-> <<>>,
     safe_swap_params |->
         [some |-> TRUE, input_mint |-> request.input_mint,
          output_mint |-> request.output_mint, amount |-> request.input_amount,
          slippage_bps |-> request.slippage_bps, max_accounts |-> 0],
     confidence |-> 99]

_reject_swap(request) ==
    [request_id |-> request.id, action |-> "reject", risk_level |-> "blocked",
     token_analysis |-> 0, recommended_slippage_bps |-> 0,
     max_safe_amount |-> 0, warnings |-> <<W("blacklisted", 0)>>,
     safe_swap_params |-> NoParams, confidence |-> 99]

(***************************************************************************)
(* State of the swap guard                                                 *)
(***************************************************************************)
NoRequest == SwapRequest("", "", 0, 0)

NoDecision ==
    [request_id |-> NoRequest.id, action |-> "", risk_level |-> "",
     token_analysis |-> 0, recommended_slippage_bps |-> 0,
     max_safe_amount |-> 0, warnings |-> <<>>, safe_swap_params |-> NoParams,
     confidence |-> 0]

\* source_failed: whether the liquidity probe of this call failed (a record
\* of what happened, not state of the program)
IdleTask ==
    [pc |-> "idle", request |-> NoRequest, decision |-> NoDecision,
     source_failed |-> FALSE]

NoEntry == [some |-> FALSE, analysis |-> DefaultAnalysis(""), timestamp |-> 0, oid |-> 0]

InitialStats ==
    [swaps_evaluated |-> 0, swaps_approved |-> 0, swaps_warned |-> 0,
     swaps_blocked |-> 0, honeypots_caught |-> 0, user_savings_usd |-> 0]

SwapInit ==
    /\ whitelist = InitialWhitelist
    /\ blacklist = {}
    /\ analysis_cache = [m \in Mints |-> NoEntry]
    /\ stats = InitialStats
    /\ now = 0
    /\ task = [t \in Tasks |-> IdleTask]
    /\ next_oid = 1

(***************************************************************************)
(* Operations of the swap guard                                            *)
(***************************************************************************)
add_to_blacklist(mint) ==
    /\ blacklist' = blacklist \cup {mint}
    /\ UNCHANGED <<whitelist, analysis_cache, stats, now, task, next_oid>>
    /\ UNCHANGED not_swap_vars

remove_from_blacklist(mint) ==
    /\ blacklist' = blacklist \ {mint}
    /\ UNCHANGED <<whitelist, analysis_cache, stats, now, task, next_oid>>
    /\ UNCHANGED not_swap_vars

add_to_whitelist(mint) ==
    /\ whitelist' = whitelist \cup {mint}
    /\ UNCHANGED <<blacklist, analysis_cache, stats, now, task, next_oid>>
    /\ UNCHANGED not_swap_vars

\* evaluate_swap without its whitelist test
EvalPathNoWhitelist(mint) ==
    IF mint \in blacklist THEN "blacklist" ELSE "analyze"

\* The order of the two fast-path tests of evaluate_swap
EvalPath(mint) ==
    IF mint \in whitelist THEN "whitelist"
    ELSE IF mint \in blacklist THEN "blacklist"
    ELSE "analyze"

\* The cache test with an entry of exactly cache_ttl still served
CacheHitInclusive(mint) ==
    /\ analysis_cache[mint].some
    /\ now - analysis_cache[mint].timestamp <= cache_ttl

\* The cache test of _get_token_analysis
CacheHit(mint) ==
    /\ analysis_cache[mint].some
    /\ now - analysis_cache[mint].timestamp < cache_ttl

\* The statistics update at the end of evaluate_swap (amount * 150, in tenths
\* of a dollar because amounts are in tenths of a SOL)
\* The statistics update without its final else branch
UpdateStatsNoElse(s, request, decision, analysis) ==
    IF decision.action = "approve"
    THEN [s EXCEPT !.swaps_approved = @ + 1]
    ELSE IF decision.action = "reject"
    THEN IF analysis.is_honeypot
         THEN [s EXCEPT !.swaps_blocked = @ + 1, !.honeypots_caught = @ + 1,
                        !.user_savings_usd = @ + request.input_amount * 150]
         ELSE [s EXCEPT !.swaps_blocked = @ + 1]
    ELSE s

UpdateStats(s, request, decision, analysis) ==
    IF decision.action = "approve"
    THEN [s EXCEPT !.swaps_approved = @ + 1]
    ELSE IF decision.action = "reject"
    THEN IF analysis.is_honeypot
         THEN [s EXCEPT !.swaps_blocked = @ + 1, !.honeypots_caught = @ + 1,
                        !.user_savings_usd = @ + request.input_amount * 150]
         ELSE [s EXCEPT !.swaps_blocked = @ + 1]
    ELSE [s EXCEPT !.swaps_warned = @ + 1]

\* evaluate_swap from its call to its first suspension or its return
evaluate_swap(t, request) ==
    /\ task[t].pc = "idle"
    /\ stats.swaps_evaluated < MaxEval
    /\ LET s0 == [stats EXCEPT !.swaps_evaluated = @ + 1]
           mint == request.output_mint
       IN  CASE EvalPath(mint) = "whitelist" ->
                  /\ stats' = [s0 EXCEPT !.swaps_approved = @ + 1]
                  /\ task' = [task EXCEPT ![t] =
                        [pc |-> "returned",
                         request |-> request, decision |-> _approve_swap(request),
                         source_failed |-> FALSE]]
                  /\ UNCHANGED analysis_cache
             [] EvalPath(mint) = "blacklist" ->
                  /\ stats' = [s0 EXCEPT !.swaps_blocked = @ + 1]
                  /\ task' = [task EXCEPT ![t] =
                        [pc |-> "returned",
                         request |-> request, decision |-> _reject_swap(request),
                         source_failed |-> FALSE]]
                  /\ UNCHANGED analysis_cache
             [] OTHER ->
                  IF CacheHit(mint)
                  THEN LET md == _make_decision(request, analysis_cache[mint].analysis,
                                                analysis_cache[mint].oid)
                       IN  /\ analysis_cache' =
                                [analysis_cache EXCEPT ![mint].analysis = md.analysis]
                           /\ stats' = UpdateStats(s0, request, md.decision, md.analysis)
                           /\ task' = [task EXCEPT ![t] =
                                 [pc |-> "returned",
                                  request |-> request, decision |-> md.decision,
                                  source_failed |-> FALSE]]
                  ELSE /\ stats' = s0
                       /\ task' = [task EXCEPT ![t] =
                             [pc |-> "await_liquidity",
                              request |-> request, decision |-> NoDecision,
                              source_failed |-> FALSE]]
                       /\ UNCHANGED analysis_cache
    /\ UNCHANGED <<whitelist, blacklist, now, next_oid>>
    /\ UNCHANGED not_swap_vars

\* The liquidity probe of a suspended _analyze_token completes: the rest of
\* _analyze_token, the cache store of _get_token_analysis, and the rest of
\* evaluate_swap run to the return
liquidity_returns(t, client_ok, buy, sell) ==
    /\ task[t].pc = "await_liquidity"
    /\ LET request == task[t].request
           mint == request.output_mint
           analysis == _analyze_token(mint, _check_jupiter_liquidity(client_ok, buy, sell),
                                      _get_token_info)
           md == _make_decision(request, analysis, next_oid)
       IN  /\ analysis_cache' = [analysis_cache EXCEPT ![mint] =
                 [some |-> TRUE, analysis |-> md.analysis, timestamp |-> now,
                  oid |-> next_oid]]
           /\ stats' = UpdateStats(stats, request, md.decision, md.analysis)
           /\ task' = [task EXCEPT ![t] =
                 [task[t] EXCEPT !.pc = "returned", !.decision = md.decision,
                                 !.source_failed = SourceFailed(client_ok, buy, sell)]]
    /\ next_oid' = next_oid + 1
    /\ UNCHANGED <<whitelist, blacklist, now>>
    /\ UNCHANGED not_swap_vars

\* The caller has taken the returned decision; the coroutine is gone
take_decision(t) ==
    /\ task[t].pc = "returned"
    /\ task' = [task EXCEPT ![t] = IdleTask]
    /\ UNCHANGED <<whitelist, blacklist, analysis_cache, stats, now, next_oid>>
    /\ UNCHANGED not_swap_vars

\* Time passes
Tick(d) ==
    /\ now + d <= MaxTime
    /\ now' = now + d
    /\ UNCHANGED <<whitelist, blacklist, analysis_cache, stats, task, next_oid>>
    /\ UNCHANGED not_swap_vars

SwapNext ==
    \/ \E m \in ListedMints : add_to_blacklist(m)
    \/ \E m \in ListedMints : remove_from_blacklist(m)
    \/ \E m \in ListedMints : add_to_whitelist(m)
    \/ \E t \in Tasks, r \in Requests : evaluate_swap(t, r)
    \/ \E t \in Tasks, p \in Probes :
          liquidity_returns(t, p.client_ok, p.buy, p.sell)
    \/ \E t \in Tasks : take_decision(t)
    \/ \E d \in {cache_ttl - 1, cache_ttl} : Tick(d)

(***************************************************************************)
(* EvacuatorAgent: plans, results, execute_evacuation                      *)
(***************************************************************************)
ETasks == {"e1", "e2"}
SolBalances == {1, 550}
SolPrices == {150, 200}

\* self.min_sol_reserve = 0.01 SOL, in hundredths of a SOL
min_sol_reserve == 1

\* A WalletAsset as _asset_to_dict renders it.  mint 0 is None (SOL); values
\* are in cents.
SolAsset(balance, price) ==
    [asset_type |-> "sol", mint |-> 0, balance |-> balance,
     value_usd |-> balance * price]

TokenAsset(j) ==
    [asset_type |-> "spl_token", mint |-> j, balance |-> 1, value_usd |-> 1000]

\* An EvacuationPlan as create_evacuation_plan lays it out: the SOL entry, if
\* the wallet holds any SOL (sol > 0), comes first, then the tokens
EvacuationPlan(k, n, sol) ==
    [approvals_to_revoke |-> [j \in 1..k |-> [token_mint |-> j]],
     assets |-> (IF sol > 0 THEN <<SolAsset(sol, 150)>> ELSE <<>>)
                 \o [j \in 1..n |-> TokenAsset(j)]]

Plans ==
    {EvacuationPlan(k, n, sol) :
        k \in 0..MaxApprovals, n \in 0..MaxTokens, sol \in SolBalances \cup {0}}

NoPlan == EvacuationPlan(0, 0, 0)

IsSol(a) == a.asset_type = "sol"
IsToken(a) == a.asset_type # "sol"

\* EvacuationResult(...) as constructed at the top of execute_evacuation;
\* completed_at = -1 is None
NewResult(plan, started_at) ==
    [plan |-> plan, status |-> "in_progress", assets_evacuated |-> <<>>,
     assets_failed |-> <<>>, approvals_revoked |-> <<>>,
     approvals_failed |-> <<>>, total_evacuated_usd |-> 0,
     total_failed_usd |-> 0, transactions_sent |-> 0,
     transactions_confirmed |-> 0, started_at |-> started_at,
     completed_at |-> 0 - 1, duration_seconds |-> 0, errors |-> <<>>]

\* A coroutine of execute_evacuation.  k, i: the step and the item within the
\* step it is at; log: the operations attempted so far, in order.
OffTask ==
    [pc |-> "off", dry_run |-> FALSE, evacuation_id |-> 0, k |-> 1, i |-> 1,
     log |-> <<>>, result |-> NewResult(NoPlan, 0)]

ReadyTask(plan, dry_run) ==
    [OffTask EXCEPT !.pc = "ready", !.dry_run = dry_run,
                    !.result = NewResult(plan, 0)]

\* The SOL transfer placed before the token transfers
PhaseOrderSolFirst == <<"revoke", "sol", "token">>

\* The three steps of execute_evacuation, in the order of the code
PhaseOrder == <<"revoke", "token", "sol">>

\* The except clause placed around the loop: a failure ends the step
AbortAfterFailure(i, n) == n + 1

\* Where the loop of a step goes on after item i of n failed: the except
\* clause is inside the loop body, so with the next item
NextAfterFailure(i, n) == i + 1

RevokeOk(e) ==
    LET approval == e.result.plan.approvals_to_revoke[e.i]
    IN  [e EXCEPT !.result.approvals_revoked = Append(@, approval.token_mint),
                  !.result.transactions_sent = @ + 1,
                  !.result.transactions_confirmed = @ + 1,
                  !.i = @ + 1]

RevokeFailed(e) ==
    LET approvals == e.result.plan.approvals_to_revoke
    IN  [e EXCEPT !.result.approvals_failed = Append(@, approvals[e.i].token_mint),
                  !.result.errors = Append(@, [kind |-> "revoke", mint |-> approvals[e.i].token_mint]),
                  !.i = NextAfterFailure(e.i, Len(approvals))]

TokenOk(e) ==
    LET asset == SelectSeq(e.result.plan.assets, IsToken)[e.i]
    IN  [e EXCEPT !.result.assets_evacuated = Append(@, asset),
                  !.result.total_evacuated_usd = @ + asset.value_usd,
                  !.result.transactions_sent = @ + 1,
                  !.result.transactions_confirmed = @ + 1,
                  !.i = @ + 1]

TokenFailed(e) ==
    LET token_assets == SelectSeq(e.result.plan.assets, IsToken)
        asset == token_assets[e.i]
    IN  [e EXCEPT !.result.assets_failed = Append(@, asset),
                  !.result.total_failed_usd = @ + asset.value_usd,
                  !.result.errors = Append(@, [kind |-> "transfer", mint |-> asset.mint]),
                  !.i = NextAfterFailure(e.i, Len(token_assets))]

\* The whole balance transferred, nothing withheld
transfer_amount_whole_balance(sol_asset) == sol_asset.balance

\* transfer_amount = max(0, sol_asset.balance - self.min_sol_reserve)
transfer_amount(sol_asset) == Max(0, sol_asset.balance - min_sol_reserve)

SolOk(e, price) ==
    LET sol_asset == SelectSeq(e.result.plan.assets, IsSol)[1]
        evacuated_sol == SolAsset(transfer_amount(sol_asset), price)
    IN  [e EXCEPT !.result.assets_evacuated = Append(@, evacuated_sol),
                  !.result.total_evacuated_usd = @ + evacuated_sol.value_usd,
                  !.result.transactions_sent = @ + 1,
                  !.result.transactions_confirmed = @ + 1,
                  !.k = @ + 1, !.i = 1]

SolFailed(e) ==
    LET sol_asset == SelectSeq(e.result.plan.assets, IsSol)[1]
    IN  [e EXCEPT !.result.assets_failed = Append(@, sol_asset),
                  !.result.total_failed_usd = @ + sol_asset.value_usd,
                  !.result.errors = Append(@, [kind |-> "transfer", mint |-> 0]),
                  !.k = @ + 1, !.i = 1]

\* The coroutine runs from where it is to its next await (pc await_...) or to
\* the end of the three steps (pc finalize).  With dry_run nothing is
\* dispatched and revocations and token transfers are recorded as done at
\* once; the SOL step still awaits _get_sol_price.
RECURSIVE RunToAwait(_)
RunToAwait(e) ==
    IF e.k > Len(PhaseOrder) THEN [e EXCEPT !.pc = "finalize"]
    ELSE
    LET plan == e.result.plan
        phase == PhaseOrder[e.k]
        token_assets == SelectSeq(plan.assets, IsToken)
        sol_assets == SelectSeq(plan.assets, IsSol)
        attempt == [e EXCEPT !.log = Append(@, <<phase, e.i>>)]
        next_phase == [e EXCEPT !.k = @ + 1, !.i = 1]
    IN  CASE phase = "revoke" ->
               IF e.i > Len(plan.approvals_to_revoke) THEN RunToAwait(next_phase)
               ELSE IF e.dry_run THEN RunToAwait(RevokeOk(attempt))
               ELSE [attempt EXCEPT !.pc = "await_revoke"]
          [] phase = "token" ->
               IF e.i > Len(token_assets) THEN RunToAwait(next_phase)
               ELSE IF e.dry_run THEN RunToAwait(TokenOk(attempt))
               ELSE [attempt EXCEPT !.pc = "await_token"]
          [] OTHER ->
               IF sol_assets = <<>> THEN RunToAwait(next_phase)
               ELSE IF transfer_amount(sol_assets[1]) <= 0 THEN RunToAwait(next_phase)
               ELSE IF e.dry_run THEN [attempt EXCEPT !.pc = "await_price"]
               ELSE [attempt EXCEPT !.pc = "await_sol"]

\* "Determine final status"
FinalStatus(result) ==
    IF result.errors = <<>> THEN "completed"
    ELSE IF result.assets_evacuated # <<>> THEN "partial"
    ELSE "failed"

\* The final status assigned without the "Finalize" statements
FinalizedStatusOnly(result, clock) == [result EXCEPT !.status = FinalStatus(result)]

\* "Finalize" and "Update stats"
Finalized(result, clock) ==
    [result EXCEPT !.status = FinalStatus(result), !.completed_at = clock,
                   !.duration_seconds = clock - result.started_at]

UpdateEvacStats(s, result) ==
    IF result.status \in {"completed", "partial"}
    THEN [s EXCEPT !.evacuations_completed = @ + 1,
                   !.total_value_saved_usd = @ + result.total_evacuated_usd,
                   !.total_assets_moved = @ + Len(result.assets_evacuated),
                   !.approvals_revoked = @ + Len(result.approvals_revoked)]
    ELSE [s EXCEPT !.evacuations_failed = @ + 1]

InitialEvacStats ==
    [evacuations_completed |-> 0, evacuations_failed |-> 0,
     total_value_saved_usd |-> 0, total_assets_moved |-> 0,
     approvals_revoked |-> 0]

\* The coroutine t, now in state e, either stays suspended or, at pc finalize,
\* runs the rest of execute_evacuation: status, stats, del
\* active_evacuations[evacuation_id] (KeyError if the key is gone), history.
\* active: active_evacuations as this step has left it so far.
Settle(t, e, active) ==
    IF e.pc # "finalize"
    THEN /\ evac' = [evac EXCEPT ![t] = e]
         /\ active_evacuations' = active
         /\ UNCHANGED <<evacuation_history, evac_stats>>
    ELSE LET result == Finalized(e.result, evac_clock)
         IN  /\ evac_stats' = UpdateEvacStats(evac_stats, result)
             /\ IF active[e.evacuation_id] = "none"
                THEN /\ evac' = [evac EXCEPT ![t] = [e EXCEPT !.pc = "raised", !.result = result]]
                     /\ active_evacuations' = active
                     /\ UNCHANGED evacuation_history
                ELSE /\ evac' = [evac EXCEPT ![t] = [e EXCEPT !.pc = "returned", !.result = result]]
                     /\ active_evacuations' = [active EXCEPT ![e.evacuation_id] = "none"]
                     /\ evacuation_history' = Append(evacuation_history, result)

\* evacuation_id, result and the run of execute_evacuation to its first await
StartEvacuation(t, ready) ==
    LET e == [ready EXCEPT !.evacuation_id = evac_clock,
                           !.result.started_at = evac_clock]
    IN  Settle(t, RunToAwait(e), [active_evacuations EXCEPT ![evac_clock] = t])

\* execute_evacuation(plan, dry_run) from its call to its first await
execute_evacuation(t) ==
    /\ evac[t].pc = "ready"
    /\ StartEvacuation(t, evac[t])
    /\ UNCHANGED evac_clock
    /\ UNCHANGED not_evac_vars

\* _revoke_approval returns or raises
revoke_returns(t, ok) ==
    /\ evac[t].pc = "await_revoke"
    /\ Settle(t, RunToAwait(IF ok THEN RevokeOk(evac[t]) ELSE RevokeFailed(evac[t])),
              active_evacuations)
    /\ UNCHANGED evac_clock
    /\ UNCHANGED not_evac_vars

\* _transfer_token returns or raises
token_transfer_returns(t, ok) ==
    /\ evac[t].pc = "await_token"
    /\ Settle(t, RunToAwait(IF ok THEN TokenOk(evac[t]) ELSE TokenFailed(evac[t])),
              active_evacuations)
    /\ UNCHANGED evac_clock
    /\ UNCHANGED not_evac_vars

\* _transfer_sol returns (then _get_sol_price is awaited) or raises
sol_transfer_returns(t, ok) ==
    /\ evac[t].pc = "await_sol"
    /\ Settle(t, IF ok THEN [evac[t] EXCEPT !.pc = "await_price"]
                 ELSE RunToAwait(SolFailed(evac[t])),
              active_evacuations)
    /\ UNCHANGED evac_clock
    /\ UNCHANGED not_evac_vars

\* _get_sol_price returns the price or the fallback; it never raises
sol_price_returns(t, price) ==
    /\ evac[t].pc = "await_price"
    /\ Settle(t, RunToAwait(SolOk(evac[t], price)), active_evacuations)
    /\ UNCHANGED evac_clock
    /\ UNCHANGED not_evac_vars

\* A second passes
EvacTick ==
    /\ evac_clock < MaxEvacTime
    /\ evac_clock' = evac_clock + 1
    /\ UNCHANGED <<evac, active_evacuations, evacuation_history, evac_stats>>
    /\ UNCHANGED not_evac_vars

EvacIdle ==
    /\ evac = [t \in ETasks |-> OffTask]
    /\ active_evacuations = [id \in 0..MaxEvacTime |-> "none"]
    /\ evacuation_history = <<>>
    /\ evac_stats = InitialEvacStats
    /\ evac_clock = 0

\* One call of execute_evacuation, for any plan, live or dry
EvacInit ==
    /\ \E plan \in Plans, dry_run \in BOOLEAN :
          evac = [t \in ETasks |-> IF t = "e1" THEN ReadyTask(plan, dry_run) ELSE OffTask]
    /\ active_evacuations = [id \in 0..MaxEvacTime |-> "none"]
    /\ evacuation_history = <<>>
    /\ evac_stats = InitialEvacStats
    /\ evac_clock = 0

\* The plans of two calls that run side by side on one agent
ConcPlans ==
    {EvacuationPlan(k, n, sol) : k \in 0..1, n \in 0..1, sol \in {0, 550}}

\* Two calls of execute_evacuation on the same agent, each for any plan, live
\* or dry, started in any order and at any time
EvacConcInit ==
    /\ \E p1, p2 \in ConcPlans, d1, d2 \in BOOLEAN :
          evac = [t \in ETasks |-> IF t = "e1" THEN ReadyTask(p1, d1)
                                   ELSE ReadyTask(p2, d2)]
    /\ active_evacuations = [id \in 0..MaxEvacTime |-> "none"]
    /\ evacuation_history = <<>>
    /\ evac_stats = InitialEvacStats
    /\ evac_clock = 0

\* What goes on once calls of execute_evacuation are under way
EvacContinue ==
    \/ \E t \in ETasks, ok \in BOOLEAN : revoke_returns(t, ok)
    \/ \E t \in ETasks, ok \in BOOLEAN : token_transfer_returns(t, ok)
    \/ \E t \in ETasks, ok \in BOOLEAN : sol_transfer_returns(t, ok)
    \/ \E t \in ETasks, price \in SolPrices : sol_price_returns(t, price)
    \/ EvacTick

EvacNext ==
    \/ \E t \in ETasks : execute_evacuation(t)
    \/ EvacContinue

(***************************************************************************)
(* Scoring on given facts: _analyze_token and _make_decision as functions  *)
(* of what the two sources return                                          *)
(***************************************************************************)
Liquidities == {500, 999, 1000, 9999, 10000, 300000}
HolderPcts == {15, 20, 21, 50, 51, 95}
AgeHours == {2, 24, 72}
HolderCounts == {50, 500}
ScoreAmounts == {3, 6, 30, 2000}

\* The dicts _check_jupiter_liquidity can hand to _analyze_token
LiquidityDatas ==
    {NoLiquidityData} \cup
    {[some |-> TRUE, can_buy |-> b, can_sell |-> s, estimated_liquidity_usd |-> l,
      price_impact_buy |-> i, is_honeypot |-> b /\ ~s] :
        b \in BOOLEAN, s \in BOOLEAN, l \in Liquidities,
        i \in Impacts \cup {NoImpact}}

\* _get_token_info returning None
NoTokenInfo ==
    [some |-> FALSE, mint_authority_enabled |-> FALSE,
     freeze_authority_enabled |-> FALSE, verified |-> FALSE, age_hours |-> 0,
     holder_count |-> 0, top_holder_pct |-> 0, has_social |-> FALSE]

\* The dicts _get_token_info can hand to _analyze_token once it reads the chain
TokenInfos ==
    {NoTokenInfo} \cup
    {[some |-> TRUE, mint_authority_enabled |-> ma, freeze_authority_enabled |-> fa,
      verified |-> v, age_hours |-> age, holder_count |-> hc,
      top_holder_pct |-> pct, has_social |-> hc >= 100] :
        ma \in BOOLEAN, fa \in BOOLEAN, v \in BOOLEAN, age \in AgeHours,
        hc \in HolderCounts, pct \in HolderPcts}

ScoreRequest(amount) == SwapRequest("u1", "SCAM", amount, 50)

\* No computation anywhere
ScoreIdle ==
    scoring = [pc |-> "off", liquidity_data |-> NoLiquidityData,
               token_info |-> NoTokenInfo, request |-> NoRequest,
               analysis |-> DefaultAnalysis(""), decision |-> NoDecision]

\* The sources have answered: any liquidity data, any token info
ScoreInit ==
    \E ld \in LiquidityDatas, ti \in TokenInfos :
        scoring = [pc |-> "facts", liquidity_data |-> ld, token_info |-> ti,
                   request |-> NoRequest, analysis |-> DefaultAnalysis("SCAM"),
                   decision |-> NoDecision]

\* _analyze_token on the facts
analyze_token ==
    /\ scoring.pc = "facts"
    /\ scoring' = [scoring EXCEPT
           !.pc = "analysed",
           !.analysis = _analyze_token("SCAM", scoring.liquidity_data,
                                       scoring.token_info)]
    /\ UNCHANGED not_score_vars

\* _make_decision on the analysis, for a request of the given amount
make_decision(amount) ==
    /\ scoring.pc = "analysed"
    /\ LET md == _make_decision(ScoreRequest(amount), scoring.analysis, 1)
       IN  scoring' = [scoring EXCEPT !.pc = "decided",
                                      !.request = ScoreRequest(amount),
                                      !.analysis = md.analysis,
                                      !.decision = md.decision]
    /\ UNCHANGED not_score_vars

ScoreNext ==
    \/ analyze_token
    \/ \E amount \in ScoreAmounts : make_decision(amount)

\* overall_risk values in [0, 100]: every whole score and the scores next to
\* the four limits
RiskScores ==
    {Pts(k) : k \in 0..100}
    \cup {Pts(b) - 1 : b \in {20, 40, 60, 80}}
    \cup {Pts(b) + 1 : b \in {20, 40, 60, 80}}

\* A TokenAnalysis with any overall_risk and either value of the two flags,
\* before its risk level is determined
TierInit ==
    \E risk \in RiskScores, hp \in BOOLEAN, bl \in BOOLEAN :
        scoring = [pc |-> "scored", liquidity_data |-> NoLiquidityData,
                   token_info |-> NoTokenInfo, request |-> NoRequest,
                   analysis |-> [DefaultAnalysis("SCAM") EXCEPT
                                    !.overall_risk = risk, !.is_honeypot = hp,
                                    !.is_blacklisted = bl],
                   decision |-> NoDecision]

\* analysis.risk_level = self._determine_risk_level(analysis)
determine_risk_level ==
    /\ scoring.pc = "scored"
    /\ scoring' = [scoring EXCEPT !.pc = "tiered",
                                  !.analysis = WithRiskLevel(scoring.analysis)]
    /\ UNCHANGED not_score_vars

\* analysis.recommended_action and analysis.max_safe_amount_sol
determine_action ==
    /\ scoring.pc = "tiered"
    /\ scoring' = [scoring EXCEPT
           !.pc = "analysed",
           !.analysis = WithSafeAmount(WithAction(scoring.analysis))]
    /\ UNCHANGED not_score_vars

TierNext ==
    \/ determine_risk_level
    \/ determine_action
    \/ \E amount \in ScoreAmounts : make_decision(amount)

(***************************************************************************)
(* Evacuation planning: safe wallets, create_evacuation_plan and the two   *)
(* routes that call it (app/api/evacuate_routes.py)                        *)
(***************************************************************************)
Wallets == {"w1", "w2"}
SafeWalletNames == {"s1"}

\* destination_wallet None or empty: `if not destination_wallet`
NoWallet == ""

ThreatUrgency == {"low", "medium", "high", "critical"}
UrgencyTexts == {"low", "high", "CRITICAL", "urgent"}

\* str.lower() on the urgency texts
Lower(text) == IF text = "CRITICAL" THEN "critical" ELSE text

\* urgency_map.get(text, ThreatUrgency.HIGH)
urgency_map(text) == IF text \in ThreatUrgency THEN text ELSE "high"

\* CreatePlanRequest (route "plan") and ExecutePlanRequest (route "execute")
PlanRequests ==
    [route : {"plan", "execute"}, source_wallet : Wallets,
     destination_wallet : {NoWallet, "d1"}, urgency : UrgencyTexts,
     dry_run : BOOLEAN]

NoPlanRequest ==
    [route |-> "plan", source_wallet |-> "", destination_wallet |-> NoWallet,
     urgency |-> "", dry_run |-> FALSE]

\* What analyze_wallet can report: an error, or approvals, tokens and SOL
WalletAnalyses ==
    {[error |-> TRUE, approvals |-> 0, tokens |-> 0, sol |-> 0],
     [error |-> FALSE, approvals |-> 0, tokens |-> 0, sol |-> 550],
     [error |-> FALSE, approvals |-> 1, tokens |-> 1, sol |-> 550]}

\* A request being handled.  outcome: what create_evacuation_plan did
\* (value_error: raised ValueError; plan: returned a plan); status: the HTTP
\* status of the response, 0 while there is none.
PlannerOff ==
    [pc |-> "off", request |-> NoPlanRequest, destination_wallet |-> NoWallet,
     urgency |-> "", analysed |-> FALSE, outcome |-> "none", plan |-> NoPlan,
     status |-> 0]

PlanIdle ==
    /\ safe_wallets = [w \in Wallets |-> <<>>]
    /\ planner = PlannerOff

\* One request to either route, any fields
PlanInit ==
    /\ safe_wallets = [w \in Wallets |-> <<>>]
    /\ \E r \in PlanRequests :
          planner = [PlannerOff EXCEPT !.pc = "ready", !.request = r]

\* get_safe_wallet falling back on a wallet of its own choice
get_safe_wallet_or_default(user_wallet) ==
    IF safe_wallets[user_wallet] = <<>> THEN "s1"
    ELSE safe_wallets[user_wallet][1]

\* wallets[0] if wallets else None
get_safe_wallet(user_wallet) ==
    IF safe_wallets[user_wallet] = <<>> THEN NoWallet
    ELSE safe_wallets[user_wallet][1]

register_safe_wallet(user_wallet, safe_wallet) ==
    /\ \A j \in 1..Len(safe_wallets[user_wallet]) :
           safe_wallets[user_wallet][j] # safe_wallet
    /\ safe_wallets' = [safe_wallets EXCEPT ![user_wallet] = Append(@, safe_wallet)]
    /\ UNCHANGED planner
    /\ UNCHANGED not_plan_vars

\* A route handler from the request to the await of analyze_wallet inside
\* create_evacuation_plan, or to the ValueError and the 400 response
create_evacuation_plan ==
    /\ planner.pc = "ready"
    /\ LET request == planner.request
           urgency == urgency_map(Lower(request.urgency))
           destination_wallet ==
               IF request.destination_wallet = NoWallet
               THEN get_safe_wallet(request.source_wallet)
               ELSE request.destination_wallet
       IN  planner' =
               IF destination_wallet = NoWallet
               THEN [planner EXCEPT !.pc = "responded", !.urgency = urgency,
                                    !.outcome = "value_error", !.status = 400]
               ELSE [planner EXCEPT !.pc = "await_analysis", !.urgency = urgency,
                                    !.destination_wallet = destination_wallet,
                                    !.analysed = TRUE]
    /\ UNCHANGED safe_wallets
    /\ UNCHANGED not_plan_vars

\* analyze_wallet returns: the rest of create_evacuation_plan, then the
\* response of route "plan", or for route "execute" the call of
\* execute_evacuation up to its first await
analyze_wallet_returns(analysis) ==
    /\ planner.pc = "await_analysis"
    /\ UNCHANGED <<safe_wallets, evac_clock, swap_vars, score_vars, safety_vars>>
    /\ IF analysis.error
       THEN /\ planner' = [planner EXCEPT !.pc = "responded",
                                          !.outcome = "value_error", !.status = 400]
            /\ UNCHANGED <<evac, active_evacuations, evacuation_history, evac_stats>>
       ELSE LET plan == EvacuationPlan(analysis.approvals, analysis.tokens, analysis.sol)
            IN  IF planner.request.route = "plan"
                THEN /\ planner' = [planner EXCEPT !.pc = "responded", !.outcome = "plan",
                                                   !.plan = plan, !.status = 200]
                     /\ UNCHANGED <<evac, active_evacuations, evacuation_history, evac_stats>>
                ELSE /\ planner' = [planner EXCEPT !.pc = "executing", !.outcome = "plan",
                                                   !.plan = plan]
                     /\ StartEvacuation("e1", ReadyTask(plan, planner.request.dry_run))

PlanNext ==
    \/ \E w \in Wallets, s \in SafeWalletNames : register_safe_wallet(w, s)
    \/ create_evacuation_plan
    \/ \E analysis \in WalletAnalyses : analyze_wallet_returns(analysis)
    \/ EvacContinue

(***************************************************************************)
(* SafetyGuard (agents/core/safety.py).  Time is in units of half an hour; *)
(* confidence is in percent.  The limits of SafetyConfig are the caller's  *)
(* to set, as the tests do: here few blocks per hour and a cooldown of one *)
(* time unit.  recent_actions keeps the action and the timestamp of each   *)
(* record and pending_human_approval the action, severity, target and      *)
(* value of each entry: the other fields are never read.  The cap on       *)
(* recent_actions, 1000 in the source, is scaled to one more than the      *)
(* blocks allowed per hour.  last_check is the dict a call of              *)
(* check_action_allowed has just returned; the caller has dropped it when  *)
(* the next operation begins.  block_calls is a history variable: the      *)
(* record_action("BLOCK", ...) calls of the last hour, which the truncated *)
(* recent_actions may no longer hold.                                      *)
(***************************************************************************)
Addresses == {"a1", "a2"}

\* target_address = None
NoAddress == ""

\* ActionSeverity values
SeverityLow == 1
SeverityHigh == 3

\* SafetyConfig
require_human_approval_above_severity == 3
require_human_approval_above_value_usd == 10000
require_human_approval_for_new_patterns == TRUE
min_agents_for_block == 3
min_confidence_for_action == 70
max_blocks_per_hour == 1
cooldown_seconds == 1

\* timedelta(hours=1)
OneHour == 2

\* "Keep only last 1000 actions"
recent_actions_cap == 2

\* blocked_addresses without the address
NeverBlocked == 0 - 1

CheckArgs(action, severity, target_address, confidence, estimated_value_usd, is_new_pattern, agent_votes) ==
    [action |-> action, severity |-> severity, target_address |-> target_address,
     confidence |-> confidence, estimated_value_usd |-> estimated_value_usd,
     is_new_pattern |-> is_new_pattern, agent_votes |-> agent_votes]

\* The calls of check_action_allowed that are made
Checks ==
    {CheckArgs("WARN", SeverityLow, "a1", 95, 100, FALSE, 1),
     CheckArgs("WARN", SeverityLow, "a1", 50, 100, FALSE, 1),
     CheckArgs("BLOCK", SeverityLow, "a1", 95, 100, FALSE, 2),
     CheckArgs("BLOCK", SeverityLow, "a1", 95, 100, FALSE, 5),
     CheckArgs("BLOCK", SeverityHigh, "a2", 95, 100, FALSE, 5),
     CheckArgs("WARN", SeverityLow, NoAddress, 95, 20000, FALSE, 1),
     CheckArgs("WARN", SeverityLow, "a2", 95, 100, TRUE, 1),
     CheckArgs("COORDINATE", SeverityLow, "a2", 95, 100, FALSE, 2)}

\* The calls of record_action that are made
Records ==
    {<<"BLOCK", "a1">>, <<"BLOCK", NoAddress>>, <<"WARN", "a1">>}

\* A reason string: its fixed text and the numbers formatted into it
Reason(kind, args) == [kind |-> kind, args |-> args]

CheckResult(allowed, reason, requires_human_approval, fallback_action) ==
    [allowed |-> allowed, reason |-> reason,
     requires_human_approval |-> requires_human_approval,
     fallback_action |-> fallback_action]

\* The emergency_stop property without the config flag
emergency_stop_flag_only == _emergency_stop

\* The emergency_stop property
emergency_stop == _emergency_stop \/ emergency_stop_enabled

\* Check 4: the BLOCK records of the last hour
recent_blocks ==
    Cardinality({j \in 1..Len(recent_actions) :
                    /\ recent_actions[j].action = "BLOCK"
                    /\ recent_actions[j].timestamp > safety_clock - OneHour})

\* Check 5 with a cooldown that never ends
in_cooldown_forever(target_address) ==
    /\ target_address # NoAddress
    /\ blocked_addresses[target_address] # NeverBlocked

\* Check 5: cooldown for the same address
in_cooldown(target_address) ==
    /\ target_address # NoAddress
    /\ blocked_addresses[target_address] # NeverBlocked
    /\ safety_clock - blocked_addresses[target_address] < cooldown_seconds

\* Check 6 without the test of the estimated value
approval_reason_without_value(c) ==
    IF c.severity >= require_human_approval_above_severity
    THEN "severity_requires_approval"
    ELSE IF c.is_new_pattern /\ require_human_approval_for_new_patterns
    THEN "new_pattern_requires_approval"
    ELSE ""

\* Check 6: the reason human approval is needed for, or "" when it is not
approval_reason(c) ==
    IF c.severity >= require_human_approval_above_severity
    THEN "severity_requires_approval"
    ELSE IF c.estimated_value_usd > require_human_approval_above_value_usd
    THEN "value_requires_approval"
    ELSE IF c.is_new_pattern /\ require_human_approval_for_new_patterns
    THEN "new_pattern_requires_approval"
    ELSE ""

\* The dict check_action_allowed returns in the current state
check_result(c) ==
    IF emergency_stop
    THEN CheckResult(FALSE, Reason("emergency_stop_active", <<>>), FALSE, "monitor_only")
    ELSE IF c.confidence < min_confidence_for_action
    THEN CheckResult(FALSE, Reason("confidence_too_low",
                                   <<c.confidence, min_confidence_for_action>>),
                     FALSE, "monitor_only")
    ELSE IF c.action \in {"BLOCK", "COORDINATE"} /\ c.agent_votes < min_agents_for_block
    THEN CheckResult(FALSE, Reason("insufficient_consensus",
                                   <<c.agent_votes, min_agents_for_block>>),
                     FALSE, "warn_only")
    ELSE IF c.action = "BLOCK" /\ recent_blocks >= max_blocks_per_hour
    THEN CheckResult(FALSE, Reason("rate_limit_exceeded", <<recent_blocks>>),
                     TRUE, "warn_only")
    ELSE IF in_cooldown(c.target_address)
    THEN CheckResult(FALSE, Reason("address_in_cooldown", <<>>), FALSE, "")
    ELSE IF approval_reason(c) # ""
    THEN CheckResult(TRUE, Reason(approval_reason(c), <<>>), TRUE, "")
    ELSE CheckResult(TRUE, Reason("passed_all_checks", <<>>), FALSE, "")

\* A call of check_action_allowed that queues an entry for human approval
queues_for_approval(c) ==
    check_result(c).allowed /\ check_result(c).requires_human_approval

\* The entry check_action_allowed appends to pending_human_approval
PendingEntry(c) ==
    [action |-> c.action, severity |-> c.severity, target |-> c.target_address,
     value_usd |-> c.estimated_value_usd]

\* No call of check_action_allowed has returned yet
NoCheck == [call |-> <<>>, result |-> <<>>]

\* The SafetyGuard before it is constructed
SafetyIdle ==
    /\ _emergency_stop = FALSE
    /\ emergency_stop_enabled = FALSE
    /\ recent_actions = <<>>
    /\ blocked_addresses = [a \in Addresses |-> NeverBlocked]
    /\ pending_human_approval = <<>>
    /\ safety_clock = 0
    /\ last_check = NoCheck
    /\ block_calls = [t \in 0..MaxSafetyTime |-> 0]

\* SafetyGuard.__init__, with either value of the EMERGENCY_STOP variable of
\* the environment and of the emergency_stop_enabled field of the config
SafetyInit ==
    /\ _emergency_stop \in BOOLEAN
    /\ emergency_stop_enabled \in BOOLEAN
    /\ recent_actions = <<>>
    /\ blocked_addresses = [a \in Addresses |-> NeverBlocked]
    /\ pending_human_approval = <<>>
    /\ safety_clock = 0
    /\ last_check = NoCheck
    /\ block_calls = [t \in 0..MaxSafetyTime |-> 0]

activate_emergency_stop ==
    /\ _emergency_stop' = TRUE
    /\ UNCHANGED <<emergency_stop_enabled, recent_actions, blocked_addresses,
                   pending_human_approval, safety_clock, block_calls>>
    /\ last_check' = NoCheck
    /\ UNCHANGED not_safety_vars

deactivate_emergency_stop ==
    /\ _emergency_stop' = FALSE
    /\ UNCHANGED <<emergency_stop_enabled, recent_actions, blocked_addresses,
                   pending_human_approval, safety_clock, block_calls>>
    /\ last_check' = NoCheck
    /\ UNCHANGED not_safety_vars

\* check_action_allowed has no await in it: one call is one step
check_action_allowed(c) ==
    /\ queues_for_approval(c) => Len(pending_human_approval) < MaxPending
    /\ pending_human_approval' =
          IF queues_for_approval(c)
          THEN Append(pending_human_approval, PendingEntry(c))
          ELSE pending_human_approval
    /\ last_check' = [call |-> c, result |-> check_result(c)]
    /\ UNCHANGED <<_emergency_stop, emergency_stop_enabled, recent_actions,
                   blocked_addresses, safety_clock, block_calls>>
    /\ UNCHANGED not_safety_vars

\* recent_actions[-1000:], with the scaled cap
KeepLast(actions) ==
    IF Len(actions) > recent_actions_cap
    THEN SubSeq(actions, Len(actions) - recent_actions_cap + 1, Len(actions))
    ELSE actions

record_action(action, target_address) ==
    /\ recent_actions' =
          KeepLast(Append(recent_actions,
                          [action |-> action, timestamp |-> safety_clock]))
    /\ blocked_addresses' =
          IF action = "BLOCK" /\ target_address # NoAddress
          THEN [blocked_addresses EXCEPT ![target_address] = safety_clock]
          ELSE blocked_addresses
    /\ block_calls' =
          IF action = "BLOCK"
          THEN [block_calls EXCEPT ![safety_clock] = Min(@ + 1, max_blocks_per_hour)]
          ELSE block_calls
    /\ last_check' = NoCheck
    /\ UNCHANGED <<_emergency_stop, emergency_stop_enabled, pending_human_approval,
                   safety_clock>>
    /\ UNCHANGED not_safety_vars

\* pending_human_approval.pop(index)
Pop(entries, index) ==
    SubSeq(entries, 1, index) \o SubSeq(entries, index + 2, Len(entries))

approve_action(index) ==
    /\ 0 <= index /\ index < Len(pending_human_approval)
    /\ pending_human_approval' = Pop(pending_human_approval, index)
    /\ last_check' = NoCheck
    /\ UNCHANGED <<_emergency_stop, emergency_stop_enabled, recent_actions,
                   blocked_addresses, safety_clock, block_calls>>
    /\ UNCHANGED not_safety_vars

reject_action(index) ==
    /\ 0 <= index /\ index < Len(pending_human_approval)
    /\ pending_human_approval' = Pop(pending_human_approval, index)
    /\ last_check' = NoCheck
    /\ UNCHANGED <<_emergency_stop, emergency_stop_enabled, recent_actions,
                   blocked_addresses, safety_clock, block_calls>>
    /\ UNCHANGED not_safety_vars

\* Half an hour passes
SafetyTick ==
    /\ safety_clock < MaxSafetyTime
    /\ safety_clock' = safety_clock + 1
    /\ block_calls' = [t \in 0..MaxSafetyTime |->
                          IF t >= safety_clock' - OneHour THEN block_calls[t] ELSE 0]
    /\ last_check' = NoCheck
    /\ UNCHANGED <<_emergency_stop, emergency_stop_enabled, recent_actions,
                   blocked_addresses, pending_human_approval>>
    /\ UNCHANGED not_safety_vars

SafetyNext ==
    \/ activate_emergency_stop
    \/ deactivate_emergency_stop
    \/ \E c \in Checks : check_action_allowed(c)
    \/ \E r \in Records : record_action(r[1], r[2])
    \/ \E index \in 0..(MaxPending - 1) : approve_action(index)
    \/ \E index \in 0..(MaxPending - 1) : reject_action(index)
    \/ SafetyTick

(***************************************************************************)
(* Specifications                                                          *)
(***************************************************************************)
Init == SwapInit /\ EvacIdle /\ ScoreIdle /\ PlanIdle /\ SafetyIdle

Next == SwapNext

\* The swap guard: list management, concurrent evaluate_swap calls, time
Spec == Init /\ [][Next]_vars

\* One run of execute_evacuation beside an untouched swap guard
InitEvac == SwapInit /\ EvacInit /\ ScoreIdle /\ PlanIdle /\ SafetyIdle

SpecEvac == InitEvac /\ [][EvacNext]_vars

\* Two concurrent runs of execute_evacuation on one agent
InitEvacConc == SwapInit /\ EvacConcInit /\ ScoreIdle /\ PlanIdle /\ SafetyIdle

\* Scoring and deciding on any facts
InitScore == SwapInit /\ EvacIdle /\ ScoreInit /\ PlanIdle /\ SafetyIdle

SpecScore == InitScore /\ [][ScoreNext]_vars

\* Risk level, action and decision for any overall_risk
InitTier == SwapInit /\ EvacIdle /\ TierInit /\ PlanIdle /\ SafetyIdle

SpecTier == InitTier /\ [][TierNext]_vars

\* One request to the plan or the execute route, safe-wallet registrations
\* and the evacuation the execute route starts
InitPlan == SwapInit /\ EvacIdle /\ ScoreIdle /\ PlanInit /\ SafetyIdle

SpecPlan == InitPlan /\ [][PlanNext]_vars

SpecEvacConc == InitEvacConc /\ [][EvacNext]_vars

\* The safety guard: checks, records, emergency stop, approvals, time
InitSafety == SwapInit /\ EvacIdle /\ ScoreIdle /\ PlanIdle /\ SafetyInit

SpecSafety == InitSafety /\ [][SafetyNext]_vars

(***************************************************************************)
(* Properties                                                              *)
(***************************************************************************)
Range(seq) == {seq[j] : j \in 1..Len(seq)}

\* The task holds a decision made from the TokenAnalysis object now in the cache
DecidedFromCache(t) ==
    /\ task[t].pc = "returned"
    /\ task[t].decision.token_analysis # 0
    /\ analysis_cache[task[t].request.output_mint].oid = task[t].decision.token_analysis

CachedAnalysisOf(t) == analysis_cache[task[t].request.output_mint].analysis

\* C1 Honeypot dominance: whenever the liquidity check reported can_buy and
\* not can_sell (the analysis is flagged is_honeypot), the analysis has
\* overall_risk 100 and the decision made from it is Reject.
C1_HoneypotDominance ==
    \A t \in Tasks :
        (DecidedFromCache(t) /\ CachedAnalysisOf(t).is_honeypot)
            => /\ CachedAnalysisOf(t).overall_risk = Pts(100)
               /\ task[t].decision.action = "reject"

\* The step is a call of evaluate_swap by task t
CallStep(t) == task[t].pc = "idle" /\ task'[t].pc # "idle"

\* C2 Blacklist absolute: every evaluate_swap called for an output mint that is
\* in the blacklist returns Reject with tier Blocked, also when the mint is in
\* the whitelist.
C2_BlacklistAbsolute ==
    [][\A t \in Tasks :
          (CallStep(t) /\ task'[t].request.output_mint \in blacklist)
              => /\ task'[t].pc = "returned"
                 /\ task'[t].decision.action = "reject"
                 /\ task'[t].decision.risk_level = "blocked"]_vars

\* C3 Whitelist fast path: evaluate_swap for an output mint in the whitelist
\* and not in the blacklist returns at once with Approve and tier Safe, starts
\* no analysis (no liquidity probe) and leaves analysis_cache unchanged.
C3_WhitelistFastPath ==
    [][\A t \in Tasks :
          (CallStep(t) /\ task'[t].request.output_mint \in whitelist \ blacklist)
              => /\ task'[t].pc = "returned"
                 /\ task'[t].decision.action = "approve"
                 /\ task'[t].decision.risk_level = "safe"
                 /\ task'[t].decision.token_analysis = 0
                 /\ analysis_cache' = analysis_cache
                 /\ next_oid' = next_oid]_vars

C3_Witness ==
    \E t \in Tasks :
        /\ task[t].pc = "returned"
        /\ task[t].request.output_mint = "SCAM"
        /\ task[t].request.output_mint \in whitelist \ blacklist
        /\ task[t].decision.action = "approve"
        /\ task[t].decision.token_analysis = 0
        /\ \A m \in Mints : ~analysis_cache[m].some

\* C4 Cache single-flight: at no time are two computations (_analyze_token,
\* each with its liquidity probe) in flight for the same mint.
C4_SingleFlight ==
    \A m \in Mints :
        Cardinality({t \in Tasks : /\ task[t].pc = "await_liquidity"
                                   /\ task[t].request.output_mint = m}) <= 1

\* C5 Cache hit unmodified: as long as the cache holds the same TokenAnalysis
\* object for a mint, no step changes any field of it.
C5_CachedAnalysisUnmodified ==
    [][\A m \in Mints :
          (/\ analysis_cache[m].some
           /\ analysis_cache'[m].some
           /\ analysis_cache'[m].oid = analysis_cache[m].oid)
              => analysis_cache'[m].analysis = analysis_cache[m].analysis]_vars

\* C6 Determinism: two decisions returned for identical requests against the
\* same assessment are identical in every field.
C6_Determinism ==
    \A t1, t2 \in Tasks :
        (/\ task[t1].pc = "returned" /\ task[t2].pc = "returned"
         /\ task[t1].request = task[t2].request
         /\ task[t1].decision.token_analysis # 0
         /\ task[t1].decision.token_analysis = task[t2].decision.token_analysis)
            => task[t1].decision = task[t2].decision

\* C7 Degraded scoring on signal failure: an analysis made while the liquidity
\* probe failed has overall_risk >= 75, tier High or worse, and the warning
\* that the analysis was incomplete.
C7_DegradedOnSignalFailure ==
    \A t \in Tasks :
        (DecidedFromCache(t) /\ task[t].source_failed)
            => /\ CachedAnalysisOf(t).overall_risk >= Pts(75)
               /\ CachedAnalysisOf(t).risk_level \in {"high", "critical", "blocked"}
               /\ W("analysis_incomplete", 0) \in Range(CachedAnalysisOf(t).warnings)

Rank(kind) ==
    CASE kind = "revoke" -> 1
      [] kind = "token" -> 2
      [] OTHER -> 3

\* C8 Evacuation ordering: in the sequence of operations a run attempts, no
\* revocation comes after a transfer and no token transfer after the SOL
\* transfer.
C8_EvacuationOrdering ==
    \A t \in ETasks :
        \A p, q \in 1..Len(evac[t].log) :
            p < q => Rank(evac[t].log[p][1]) <= Rank(evac[t].log[q][1])

C8_Witness ==
    \E t \in ETasks :
        /\ evac[t].pc = "returned"
        /\ {evac[t].log[j][1] : j \in 1..Len(evac[t].log)} = {"revoke", "token", "sol"}
        /\ evac[t].result.approvals_failed # <<>>
        /\ evac[t].result.assets_failed # <<>>

Attempts(t, kind) ==
    LET IsKind(a) == a[1] = kind IN SelectSeq(evac[t].log, IsKind)

Count(seq, mint) == Cardinality({j \in 1..Len(seq) : seq[j].mint = mint})

HasSolTransfer(plan) ==
    /\ SelectSeq(plan.assets, IsSol) # <<>>
    /\ SelectSeq(plan.assets, IsSol)[1].balance > min_sol_reserve

\* C9 Partial-failure tolerance: when a run has ended, every revocation and
\* every transfer of the plan (the SOL transfer when the balance exceeds the
\* reserve) was attempted exactly once, whatever failed; each transfer is in
\* exactly one of assets_evacuated and assets_failed; and with at least one
\* transfer evacuated and one failed the status is Partial.
C9_PartialFailureTolerance ==
    \A t \in ETasks :
        evac[t].pc \in {"returned", "raised"} =>
            LET r == evac[t].result
                tokens == SelectSeq(r.plan.assets, IsToken)
            IN  /\ Attempts(t, "revoke") =
                       [j \in 1..Len(r.plan.approvals_to_revoke) |-> <<"revoke", j>>]
                /\ Attempts(t, "token") = [j \in 1..Len(tokens) |-> <<"token", j>>]
                /\ Attempts(t, "sol") =
                       (IF HasSolTransfer(r.plan) THEN <<(<<"sol", 1>>)>> ELSE <<>>)
                /\ \A j \in 1..Len(tokens) :
                       Count(r.assets_evacuated, tokens[j].mint)
                           + Count(r.assets_failed, tokens[j].mint) = 1
                /\ Count(r.assets_evacuated, 0) + Count(r.assets_failed, 0) =
                       (IF HasSolTransfer(r.plan) THEN 1 ELSE 0)
                /\ (r.assets_evacuated # <<>> /\ r.assets_failed # <<>>)
                       => r.status = "partial"

\* Three assets, the second transfer fails: two evacuated, one failed, Partial
C9_Witness ==
    \E t \in ETasks :
        /\ evac[t].pc = "returned"
        /\ Len(evac[t].result.plan.assets) = 3
        /\ Len(evac[t].result.assets_evacuated) = 2
        /\ Len(evac[t].result.assets_failed) = 1
        /\ evac[t].result.assets_failed[1].mint = 2
        /\ evac[t].result.status = "partial"

\* C10 Final status: Completed exactly when no error was recorded, Failed
\* exactly when errors were recorded and no operation (revocation or transfer)
\* succeeded, Partial exactly when some operations succeeded and some failed.
C10_FinalStatus ==
    \A t \in ETasks :
        evac[t].pc \in {"returned", "raised"} =>
            LET r == evac[t].result
                some_ok == r.approvals_revoked # <<>> \/ r.assets_evacuated # <<>>
            IN  /\ r.status = "completed" <=> r.errors = <<>>
                /\ r.status = "failed" <=> (r.errors # <<>> /\ ~some_ok)
                /\ r.status = "partial" <=> (r.errors # <<>> /\ some_ok)

\* C11 execute_evacuation never raises: no call, alone or beside another call
\* on the same agent, ends with an exception instead of an EvacuationResult.
C11_NeverRaises ==
    \A t \in ETasks : evac[t].pc # "raised"

\* C12 Tier-to-action mapping: every analysis _analyze_token has returned
\* (as stored in the cache) has recommended_action equal to the fixed image of
\* its risk_level: safe and low approve, medium warns, high requires
\* confirmation, critical and blocked reject.
C12_TierActionMapping ==
    \A m \in Mints :
        analysis_cache[m].some =>
            LET a == analysis_cache[m].analysis
                image == [safe |-> "approve", low |-> "approve", medium |-> "warn",
                          high |-> "require_confirm", critical |-> "reject",
                          blocked |-> "reject"]
            IN  /\ a.risk_level \in DOMAIN image
                /\ a.recommended_action = image[a.risk_level]

C14_ExampleScenario ==
    LET ld == scoring.liquidity_data
        ti == scoring.token_info
        a == scoring.analysis
    IN  (/\ scoring.pc = "analysed"
         /\ ld.some /\ ld.can_buy /\ ld.can_sell
         /\ ld.estimated_liquidity_usd = 500 /\ ld.price_impact_buy # NoImpact
         /\ ti.some /\ ti.mint_authority_enabled /\ ~ti.freeze_authority_enabled
         /\ ~ti.verified /\ ti.age_hours = 2 /\ ti.top_holder_pct = 95)
        => /\ a.overall_risk >= Pts(70)
           /\ a.risk_level \in {"high", "critical"}
           /\ a.recommended_action \in {"require_confirm", "reject"}

\* C15 Monotonicity: with every other fact fixed, an analysis of the same
\* token with a top_holder_pct at least as large has a concentration_risk at
\* least as large, and one with a liquidity_usd at most as large has a
\* liquidity_risk at least as large.
C15_Monotonicity ==
    LET ld == scoring.liquidity_data
        ti == scoring.token_info
        a == scoring.analysis
    IN  scoring.pc = "analysed" =>
          /\ ti.some =>
               \A pct \in HolderPcts :
                   pct >= ti.top_holder_pct =>
                       _analyze_token("SCAM", ld, [ti EXCEPT !.top_holder_pct = pct])
                           .concentration_risk >= a.concentration_risk
          /\ ld.some =>
               \A l \in Liquidities :
                   l <= ld.estimated_liquidity_usd =>
                       _analyze_token("SCAM", [ld EXCEPT !.estimated_liquidity_usd = l], ti)
                           .liquidity_risk >= a.liquidity_risk

\* An analysis just above one bucket boundary of each scale
C15_Witness ==
    /\ scoring.pc = "analysed"
    /\ scoring.liquidity_data.some /\ scoring.token_info.some
    /\ scoring.liquidity_data.estimated_liquidity_usd = 10000
    /\ scoring.token_info.top_holder_pct = 21
    /\ scoring.analysis.liquidity_risk = Pts(29)
    /\ scoring.analysis.concentration_risk = Pts(60)

\* C16 Missing destination: create_evacuation_plan called without a
\* destination for a source wallet with no registered safe wallet raises
\* ValueError (a 400 response with its message) before analyze_wallet is
\* called, and leaves safe_wallets, active_evacuations, the history and the
\* stats as they were.
C16_MissingDestinationRejected ==
    [][(/\ planner.pc = "ready" /\ planner'.pc # "ready"
        /\ planner.request.destination_wallet = NoWallet
        /\ safe_wallets[planner.request.source_wallet] = <<>>)
       => /\ planner'.outcome = "value_error"
          /\ planner'.status = 400
          /\ ~planner'.analysed
          /\ planner'.plan = NoPlan
          /\ UNCHANGED <<safe_wallets, active_evacuations, evacuation_history,
                         evac_stats>>]_vars

\* Such a call was rejected while another wallet had a safe wallet on record
C16_Witness ==
    /\ planner.pc = "responded"
    /\ planner.outcome = "value_error"
    /\ ~planner.analysed
    /\ planner.request.destination_wallet = NoWallet
    /\ safe_wallets[planner.request.source_wallet] = <<>>
    /\ \E w \in Wallets : safe_wallets[w] # <<>>

\* C17 Unknown urgency: a plan or execute request whose urgency is none of
\* low, medium, high, critical (in any letter case) gets an error response: no
\* plan is created for it and no evacuation operation is executed.
C17_UnknownUrgencyRejected ==
    (planner.pc # "off" /\ Lower(planner.request.urgency) \notin ThreatUrgency)
        => /\ planner.outcome # "plan"
           /\ planner.status # 200
           /\ evac["e1"].pc = "off"

\* A step in which a call of check_action_allowed returns
CheckReturns == last_check' # NoCheck

\* C18: while the emergency stop is active, by activate_emergency_stop not
\* yet undone or by emergency_stop_enabled in the config whatever
\* deactivate_emergency_stop did, every call of check_action_allowed returns
\* allowed = False with the reason emergency_stop_active and adds nothing
\* to pending_human_approval.
C18_EmergencyStopBlocksAll ==
    [][(CheckReturns /\ (_emergency_stop \/ emergency_stop_enabled))
       => /\ last_check'.result.allowed = FALSE
          /\ last_check'.result.reason = Reason("emergency_stop_active", <<>>)
          /\ pending_human_approval' = pending_human_approval]_vars

\* A call that would have been queued for its value was refused for the
\* emergency stop that only the config keeps active, and nothing is queued
C18_Witness ==
    /\ emergency_stop_enabled /\ ~_emergency_stop
    /\ last_check # NoCheck
    /\ last_check.call.estimated_value_usd > require_human_approval_above_value_usd
    /\ last_check.result.reason.kind = "emergency_stop_active"
    /\ pending_human_approval = <<>>

\* The record_action("BLOCK", ...) calls made less than one hour ago
BlocksRecordedWithinHour ==
    LET RECURSIVE Sum(_)
        Sum(t) == IF t > safety_clock THEN 0 ELSE block_calls[t] + Sum(t + 1)
    IN Sum(Max(0, safety_clock - OneHour + 1))

\* The record_action("BLOCK", ...) calls made at most one hour ago
BlocksRecordedNotOlderThanHour ==
    LET RECURSIVE Sum(_)
        Sum(t) == IF t > safety_clock THEN 0 ELSE block_calls[t] + Sum(t + 1)
    IN Sum(Max(0, safety_clock - OneHour))

\* A call for a BLOCK that passes checks 1 to 3
BlockCallReachesRateLimit ==
    /\ CheckReturns
    /\ ~(_emergency_stop \/ emergency_stop_enabled)
    /\ last_check'.call.action = "BLOCK"
    /\ last_check'.call.confidence >= min_confidence_for_action
    /\ last_check'.call.agent_votes >= min_agents_for_block

\* C19: once max_blocks_per_hour BLOCK actions have been recorded through
\* record_action within the last hour, every check_action_allowed for a
\* BLOCK that passes the emergency-stop, confidence and consensus checks
\* returns allowed = False, a rate_limit_exceeded reason and
\* requires_human_approval = True; BLOCK records older than one hour do not
\* count.
C19_RateLimiting ==
    [][BlockCallReachesRateLimit
       => /\ BlocksRecordedWithinHour >= max_blocks_per_hour
             => /\ last_check'.result.allowed = FALSE
                /\ last_check'.result.reason.kind = "rate_limit_exceeded"
                /\ last_check'.result.requires_human_approval = TRUE
          /\ BlocksRecordedNotOlderThanHour < max_blocks_per_hour
             => last_check'.result.reason.kind # "rate_limit_exceeded"]_vars

\* A call that reaches check 5: it passes checks 1 to 4
CallReachesCooldown ==
    /\ CheckReturns
    /\ ~(_emergency_stop \/ emergency_stop_enabled)
    /\ last_check'.call.confidence >= min_confidence_for_action
    /\ last_check'.call.action \in {"BLOCK", "COORDINATE"}
          => last_check'.call.agent_votes >= min_agents_for_block
    /\ last_check'.result.reason.kind # "rate_limit_exceeded"

\* C20: after record_action("BLOCK", addr, ...) and while fewer than
\* cooldown_seconds have elapsed, a check_action_allowed for addr that
\* passes checks 1 to 4 returns allowed = False with the reason
\* address_in_cooldown; once the cooldown has elapsed the cooldown check
\* no longer refuses it.
C20_Cooldown ==
    [][(CallReachesCooldown /\ last_check'.call.target_address \in Addresses)
       => LET last_block == blocked_addresses[last_check'.call.target_address]
          IN IF last_block # NeverBlocked
                /\ safety_clock - last_block < cooldown_seconds
             THEN /\ last_check'.result.allowed = FALSE
                  /\ last_check'.result.reason = Reason("address_in_cooldown", <<>>)
             ELSE last_check'.result.reason.kind # "address_in_cooldown"]_vars

\* A call for an address whose cooldown has elapsed was allowed
C20_Witness ==
    /\ last_check # NoCheck
    /\ last_check.call.target_address = "a1"
    /\ blocked_addresses["a1"] # NeverBlocked
    /\ safety_clock - blocked_addresses["a1"] >= cooldown_seconds
    /\ last_check.result.allowed

\* A call that passes every blocking check: checks 1 to 5
CallPassesBlockingChecks ==
    /\ CheckReturns
    /\ ~(_emergency_stop \/ emergency_stop_enabled)
    /\ last_check'.call.confidence >= min_confidence_for_action
    /\ last_check'.call.action \in {"BLOCK", "COORDINATE"}
          => last_check'.call.agent_votes >= min_agents_for_block
    /\ last_check'.call.action = "BLOCK" => recent_blocks < max_blocks_per_hour
    /\ ~in_cooldown(last_check'.call.target_address)

\* The call needs human approval: for its severity, its value or its novelty
CallNeedsHuman ==
    \/ last_check'.call.severity >= require_human_approval_above_severity
    \/ last_check'.call.estimated_value_usd > require_human_approval_above_value_usd
    \/ last_check'.call.is_new_pattern /\ require_human_approval_for_new_patterns

\* C21: a call of check_action_allowed that passes every blocking check and
\* needs human approval (value above the limit, severity at the approval
\* severity, or a new pattern) returns allowed = True with
\* requires_human_approval = True and appends exactly one entry, its own,
\* to pending_human_approval; one that passes and needs no approval returns
\* requires_human_approval = False and leaves the queue unchanged.
C21_HumanApprovalQueueing ==
    [][CallPassesBlockingChecks
       => IF CallNeedsHuman
          THEN /\ last_check'.result.allowed = TRUE
               /\ last_check'.result.requires_human_approval = TRUE
               /\ Len(pending_human_approval') = Len(pending_human_approval) + 1
               /\ SubSeq(pending_human_approval', 1, Len(pending_human_approval))
                     = pending_human_approval
               /\ pending_human_approval'[Len(pending_human_approval')].target
                     = last_check'.call.target_address
               /\ pending_human_approval'[Len(pending_human_approval')].value_usd
                     = last_check'.call.estimated_value_usd
          ELSE /\ last_check'.result.allowed = TRUE
               /\ last_check'.result.requires_human_approval = FALSE
               /\ pending_human_approval' = pending_human_approval]_vars

\* A call of low severity and known pattern was queued for its value alone
C21_Witness ==
    /\ last_check # NoCheck
    /\ last_check.call.severity < require_human_approval_above_severity
    /\ ~last_check.call.is_new_pattern
    /\ last_check.call.estimated_value_usd > require_human_approval_above_value_usd
    /\ last_check.result.allowed /\ last_check.result.requires_human_approval
    /\ Len(pending_human_approval) = 1
    /\ pending_human_approval[1].value_usd = last_check.call.estimated_value_usd

\* C22: for a token that is neither a honeypot nor blacklisted and any
\* overall_risk in [0, 100], _determine_risk_level returns Safe iff
\* risk < 20, Low iff 20 <= risk < 40, Medium iff 40 <= risk < 60, High iff
\* 60 <= risk < 80 and Critical iff risk >= 80.
C22_RiskTierThresholds ==
    (scoring.pc = "tiered" /\ ~scoring.analysis.is_honeypot
        /\ ~scoring.analysis.is_blacklisted)
    => LET risk == scoring.analysis.overall_risk
           level == scoring.analysis.risk_level
       IN /\ level = "safe" <=> risk < Pts(20)
          /\ level = "low" <=> (Pts(20) <= risk /\ risk < Pts(40))
          /\ level = "medium" <=> (Pts(40) <= risk /\ risk < Pts(60))
          /\ level = "high" <=> (Pts(60) <= risk /\ risk < Pts(80))
          /\ level = "critical" <=> risk >= Pts(80)

\* A score of exactly 80 on a clean token got the level Critical
C22_Witness ==
    /\ scoring.pc = "tiered"
    /\ ~scoring.analysis.is_honeypot /\ ~scoring.analysis.is_blacklisted
    /\ scoring.analysis.overall_risk = Pts(80)
    /\ scoring.analysis.risk_level = "critical"

\* No call other than that of task t is inside _get_token_analysis
Sequential(t) == \A u \in Tasks \ {t} : task[u].pc # "await_liquidity"

\* C23: on a sequential access to _get_token_analysis for a mint, a fresh
\* computation is started if and only if the cache holds no entry for the
\* mint or the entry is at least cache_ttl old; the computation, when it
\* ends, overwrites the entry with the new analysis and the time of that
\* moment.
C23_CacheTTL ==
    [][\A t \in Tasks :
          /\ (CallStep(t) /\ Sequential(t)
                 /\ task'[t].request.output_mint \notin whitelist \cup blacklist)
             => LET entry == analysis_cache[task'[t].request.output_mint]
                IN /\ task'[t].pc = "await_liquidity"
                         <=> (~entry.some \/ now - entry.timestamp >= cache_ttl)
                   /\ task'[t].pc # "await_liquidity"
                         => /\ task'[t].pc = "returned"
                            /\ task'[t].decision.token_analysis = entry.oid
                            /\ analysis_cache'[task'[t].request.output_mint].timestamp
                                  = entry.timestamp
          /\ (task[t].pc = "await_liquidity" /\ task'[t].pc = "returned"
                 /\ Sequential(t))
             => LET entry == analysis_cache'[task[t].request.output_mint]
                IN /\ entry.some
                   /\ entry.timestamp = now
                   /\ entry.oid = next_oid
                   /\ task'[t].decision.token_analysis = next_oid]_vars

\* An entry was replaced, cache_ttl or more after the start, by a second
\* analysis while no other call was in flight
C23_Witness ==
    \E t \in Tasks :
        /\ task[t].pc = "returned" /\ Sequential(t)
        /\ analysis_cache[task[t].request.output_mint].some
        /\ analysis_cache[task[t].request.output_mint].oid = 2
        /\ analysis_cache[task[t].request.output_mint].timestamp >= cache_ttl
        /\ task[t].decision.token_analysis = 2

\* C24: the SOL amount execute_evacuation transfers and records is
\* max(0, balance - min_sol_reserve), never more than balance - reserve;
\* when the plan holds no SOL or a balance that does not exceed the reserve,
\* no SOL transfer is dispatched, awaited or recorded.
C24_ReserveInvariant ==
    \A t \in ETasks :
        LET r == evac[t].result
            sols == SelectSeq(r.plan.assets, IsSol)
            sent == SelectSeq(r.assets_evacuated, IsSol)
            failed == SelectSeq(r.assets_failed, IsSol)
        IN  /\ \A j \in 1..Len(sent) :
                  /\ sols # <<>>
                  /\ sent[j].balance = Max(0, sols[1].balance - min_sol_reserve)
                  /\ sent[j].balance <= sols[1].balance - min_sol_reserve
            /\ (sols = <<>> \/ sols[1].balance <= min_sol_reserve)
                  => /\ Attempts(t, "sol") = <<>>
                     /\ evac[t].pc \notin {"await_sol", "await_price"}
                     /\ sent = <<>>
                     /\ failed = <<>>

\* A live run transferred the balance less the reserve and returned
C24_Witness ==
    \E t \in ETasks :
        /\ evac[t].pc = "returned" /\ ~evac[t].dry_run
        /\ SelectSeq(evac[t].result.plan.assets, IsSol) # <<>>
        /\ SelectSeq(evac[t].result.plan.assets, IsSol)[1].balance = 550
        /\ SelectSeq(evac[t].result.assets_evacuated, IsSol) # <<>>
        /\ SelectSeq(evac[t].result.assets_evacuated, IsSol)[1].balance
              = 550 - min_sol_reserve

\* The tiers in order of risk
TierRank(risk_level) ==
    CASE risk_level = "safe" -> 1
      [] risk_level = "low" -> 2
      [] risk_level = "medium" -> 3
      [] risk_level = "high" -> 4
      [] risk_level = "critical" -> 5
      [] OTHER -> 6

\* C25: of any two decisions evaluate_swap has returned, fast paths
\* included, the one with the riskier tier (Safe, Low, Medium, High,
\* Critical, Blocked in that order) carries the strictly larger
\* recommended_slippage_bps.
C25_SlippageIncreasing ==
    \A t, u \in Tasks :
        (task[t].pc = "returned" /\ task[u].pc = "returned"
            /\ TierRank(task[t].decision.risk_level)
                  < TierRank(task[u].decision.risk_level))
        => task[t].decision.recommended_slippage_bps
              < task[u].decision.recommended_slippage_bps

TerminalStatuses == {"completed", "partial", "failed"}

\* C26: every result execute_evacuation returns has a terminal status
\* (Completed, Partial or Failed) and completed_at set; the status is
\* assigned once, in the step that ends the run after the three phases, and
\* a finalized result is never touched again.
C26_FinalizedOnce ==
    [][\A t \in ETasks :
          /\ evac'[t].pc = "returned"
                => /\ evac'[t].result.status \in TerminalStatuses
                   /\ evac'[t].result.completed_at >= evac'[t].result.started_at
          /\ evac'[t].result.status # evac[t].result.status
                => /\ evac[t].result.status = "in_progress"
                   /\ evac'[t].result.status \in TerminalStatuses
                   /\ evac'[t].k > Len(PhaseOrder)
                   /\ evac'[t].pc \in {"returned", "raised"}
          /\ evac[t].result.status \in TerminalStatuses
                => evac'[t] = evac[t]]_vars

\* A run with a failed operation and nothing evacuated returned Failed
C26_Witness ==
    \E t \in ETasks :
        /\ evac[t].pc = "returned"
        /\ evac[t].result.status = "failed"
        /\ evac[t].result.errors # <<>>
        /\ evac[t].result.completed_at >= 0
        /\ evac[t].k > Len(PhaseOrder)

\* The try block of _analyze_token ran to its end on the facts of this state
AnalysisCompleted ==
    ~AnalyzeLiquidity(DefaultAnalysis("SCAM"), scoring.liquidity_data).raised

\* C27: a token that is not a honeypot and whose analysis completes without
\* error has overall_risk below 60 whatever its liquidity, authorities, age,
\* concentration and verification are, so its tier is never High or Critical
\* and its recommended action never RequireConfirm or Reject.
C27_NonHoneypotBelowHigh ==
    (/\ scoring.pc \in {"analysed", "decided"}
     /\ scoring.token_info \in TokenInfos
     /\ scoring.liquidity_data \in LiquidityDatas
     /\ AnalysisCompleted
     /\ ~scoring.analysis.is_honeypot)
        => /\ scoring.analysis.overall_risk < Pts(60)
           /\ scoring.analysis.overall_risk >= 0
           /\ scoring.analysis.risk_level \in {"safe", "low", "medium"}
           /\ scoring.analysis.recommended_action \in {"approve", "warn"}

\* The worst non-honeypot token (no liquidity data, both authorities, very
\* new, one holder above 50%, unverified) scored 58: Medium, Warn
C27_Witness ==
    /\ scoring.pc = "analysed"
    /\ AnalysisCompleted
    /\ ~scoring.analysis.is_honeypot
    /\ ~scoring.liquidity_data.some
    /\ scoring.analysis.rugpull_risk = Pts(70)
    /\ scoring.analysis.concentration_risk = Pts(90)
    /\ scoring.analysis.overall_risk = Pts(58)
    /\ scoring.analysis.risk_level = "medium"
    /\ scoring.analysis.recommended_action = "warn"

\* C28: whenever a decision returned by evaluate_swap carries
\* safe_swap_params (fast-path approvals included), the amount in those
\* params does not exceed the decision's max_safe_amount, and decisions with
\* action Reject or RequireConfirm carry no safe_swap_params.
C28_ExposureCap ==
    \A t \in Tasks :
        task[t].pc = "returned" =>
            /\ task[t].decision.safe_swap_params.some
                  => task[t].decision.safe_swap_params.amount
                        <= task[t].decision.max_safe_amount
            /\ task[t].decision.action \in {"reject", "require_confirm"}
                  => ~task[t].decision.safe_swap_params.some

\* The evaluate_swap calls that have not returned yet
InFlight == {t \in Tasks : task[t].pc = "await_liquidity"}

\* C29: once every evaluate_swap call made so far has returned (whitelist,
\* blacklist and analysed paths mixed), swaps_evaluated = swaps_approved +
\* swaps_warned + swaps_blocked and honeypots_caught <= swaps_blocked; while
\* calls are in flight the difference is their number.
C29_StatsConservation ==
    /\ stats.swaps_evaluated = stats.swaps_approved + stats.swaps_warned
                                  + stats.swaps_blocked + Cardinality(InFlight)
    /\ stats.honeypots_caught <= stats.swaps_blocked
    /\ InFlight = {}
          => stats.swaps_evaluated = stats.swaps_approved + stats.swaps_warned
                                        + stats.swaps_blocked

\* Two calls have returned, one blocked on the blacklist path and one
\* blocked as a honeypot on the analysed path
C29_Witness ==
    /\ InFlight = {}
    /\ stats.swaps_evaluated = 2
    /\ stats.swaps_blocked = 2
    /\ stats.honeypots_caught = 1
    /\ \E t \in Tasks : task[t].pc = "returned" /\ task[t].decision.risk_level = "blocked"

\* The execute_evacuation calls made so far, and those not yet ended
EvacCalls == {t \in ETasks : evac[t].pc \notin {"off", "ready"}}

EvacInFlight == {t \in EvacCalls : evac[t].pc \notin {"returned", "raised"}}

\* C30: while a call of execute_evacuation is in flight its result is present
\* in active_evacuations; once all calls on the agent, sequential or
\* overlapping, have returned, active_evacuations is empty, the history holds
\* exactly one result per call and evacuations_completed +
\* evacuations_failed equals the number of calls.
C30_EvacuationBookkeeping ==
    /\ \A t \in EvacInFlight : \E id \in DOMAIN active_evacuations :
           active_evacuations[id] = t
    /\ (\A t \in EvacCalls : evac[t].pc = "returned")
          => /\ \A id \in DOMAIN active_evacuations : active_evacuations[id] = "none"
             /\ Len(evacuation_history) = Cardinality(EvacCalls)
             /\ \A t \in EvacCalls : \E i \in 1..Len(evacuation_history) :
                    evacuation_history[i] = evac[t].result
             /\ evac_stats.evacuations_completed + evac_stats.evacuations_failed
                   = Cardinality(EvacCalls)

====
